---- MODULE Spec2Model ----
(***************************************************************************)
(* Model of pygameMenu.Menu (src/pygameMenu/menu.py): the navigation       *)
(* stack (_open, reset, full_reset, _back, _close, clear), the selection   *)
(* controller (_select, _append_widget), the enabled flag, the layout      *)
(* (_update_column_width, _update_widget_position, _build_widget_surface), *)
(* update and mainloop; and of the value of ColorInput                     *)
(* (src/pygame_menu/widgets/widget/colorinput.py).                         *)
(*                                                                         *)
(* Every Menu object keeps its own _current, _top, _prev, _enabled and     *)
(* _closelocked fields; the code reaches the shared ones through           *)
(* self._top and self._current, and so does the model.                     *)
(***************************************************************************)
EXTENDS Integers, Sequences, FiniteSets, TLC

\* ------------------------------------------------------------------ bounds
\* Most widgets the menus of the tree hold together.
MaxWidgets == 3
\* Deepest history an _open may build.
MaxDepth == 3
\* Largest argument handed to reset().
MaxTotal == 3

\* Most widgets of the multi-column menu.
MaxGrid == 5
\* Most rows of the multi-column menu.
MaxRows == 2

\* Most widgets the menus with explicit IDs hold together.
MaxIdWidgets == 3
\* Most lines a wrapped label is split into.
MaxLines == 2

\* Most events of one update() batch.
MaxEvents == 2

\* Most characters of the input string of a colour input.
MaxChars == 7

\* Most characters of a text handed to set_value of a hex colour input.
MaxText == 7

\* Most widgets of the menu whose layout is built.
MaxCells == 4

\* rows of a single-column menu built without a rows argument (1e6).
BigRows == 1000000

\* ------------------------------------------------------------- the objects
Root == "Root"
Menus == {"Root", "A", "B"}
NoMenu == "none"

\* The ID of a widget added without an explicit one: a fresh uuid4, equal
\* to no other ID.
AutoId == ""

\* The sub-menus a menu's buttons may link to: Root -> A -> B, and A may
\* re-open its ancestor, the root. B is a page of labels.
LinkTargets(m) ==
    CASE m = "Root" -> {"A"}
      [] m = "A" -> {"B", "Root"}
      [] OTHER -> {}

RECURSIVE SumLen(_, _)
SumLen(f, S) ==
    IF S = {} THEN 0
    ELSE LET m == CHOOSE x \in S : TRUE IN Len(f[m]) + SumLen(f, S \ {m})

\* The onclose values of pygameMenu.events that return to the caller
\* (EXIT ends the process).
OncloseValues == {"CLOSE", "NONE", "DISABLE_CLOSE", "RESET", "BACK"}

VARIABLES
    _widgets,          \* Menu._widgets: per menu, the widget list
    _index,            \* Menu._index
    _widget_selected,  \* Menu._widget_selected
    _submenus,         \* Menu._submenus
    _current,          \* Menu._current
    _top,              \* Menu._top
    _prev,             \* Menu._prev: the chain [prev, menu] as a sequence, oldest first
    _enabled,          \* Menu._enabled
    _closelocked,      \* Menu._closelocked
    _onclose,          \* Menu._onclose
    _columns,          \* Menu._columns
    _rows,             \* Menu._rows
    _widgets_surface,  \* Menu._widgets_surface: FALSE for None, TRUE once built
    surface_size,      \* the <<width, height>> handed to make_surface by the
                       \* last _build_widget_surface, None before
    _width,            \* Menu._width
    _height,           \* Menu._height
    menubar_height,    \* Menu._menubar.get_rect().height
    _column_max_width, \* Menu._column_max_width: per column, None or a width
    _column_widths,    \* Menu._column_widths: None or the width of each column
    _column_posx,      \* Menu._column_posx: the centre of each column
    _force_fit_text,   \* Menu._force_fit_text
    _mainloop_loop,    \* Menu._mainloop_loop
    mainloop,          \* the call of mainloop(): where it stands ("out" when
                       \* none is running, "in" between two ticks), its
                       \* arguments disable_loop and event_loop, the ticks
                       \* it has made and whether its last tick drew
    _joy_event,        \* Menu._joy_event: the direction bits of the held axis
    timer,             \* the pygame timer that posts _JOY_EVENT_REPEAT:
                       \* "off", "JOY_DELAY" or "JOY_REPEAT"
    queued,            \* the timer was armed at some moment since the batch
                       \* before the last one was taken from the queue
    resting,           \* the last axis event update() processed lay inside
                       \* the deadzone
    batch,             \* the events of the last update(), or the text handed
                       \* to the last set_value(), where recorded
    prior,             \* what the operation before the last update() did to
                       \* the navigation, where recorded
    _input_string,     \* ColorInput._input_string, a sequence of characters
    scroll,            \* the scroll_to_rect requests issued by the last operation
    err,               \* the exception the last operation raised, or "none"
    data,              \* the value the last operation returned (get_input_data)
    offered,           \* who the last update() offered its events to, in order
    op,                \* the last operation: its name, the levels it popped and
                       \* the menu that was current when it was called
    net,               \* opens performed minus levels popped
    opened             \* the menus handed to _open so far

vars == <<_widgets, _index, _widget_selected, _submenus, _current, _top, _prev,
          _enabled, _closelocked, _onclose, _columns, _rows, _widgets_surface,
          surface_size, _width, _height, menubar_height, _column_max_width,
          _column_widths, _column_posx, _force_fit_text, _mainloop_loop,
          mainloop,
          _joy_event, timer, queued, resting, batch, prior,
          _input_string,
          scroll, err, data, offered, op, net, opened>>

\* The mutable fields of all menus, threaded through the operations.
State ==
    [widgets |-> _widgets, index |-> _index, widget_selected |-> _widget_selected,
     submenus |-> _submenus, current |-> _current, top |-> _top, prev |-> _prev,
     enabled |-> _enabled, closelocked |-> _closelocked, onclose |-> _onclose,
     columns |-> _columns, rows |-> _rows, widgets_surface |-> _widgets_surface,
     surface_size |-> surface_size, width |-> _width, height |-> _height,
     menubar_height |-> menubar_height,
     column_max_width |-> _column_max_width, column_widths |-> _column_widths,
     column_posx |-> _column_posx, force_fit_text |-> _force_fit_text,
     mainloop_loop |-> _mainloop_loop, mainloop |-> mainloop,
     joy_event |-> _joy_event, timer |-> timer, queued |-> queued,
     resting |-> resting,
     batch |-> <<>>, prior |-> "none", input_string |-> _input_string,
     scroll |-> <<>>, err |-> "none", data |-> <<>>, offered |-> <<>>,
     net |-> net]

Last(s) == s[Len(s)]
Front(s) == SubSeq(s, 1, Len(s) - 1)

\* get_value() of a widget that holds no data (button, label) raises.
NoValue == "ValueError"

\* None where a width is expected (a width is positive), and where a list
\* or a tuple is expected (the lists of the layout are never empty).
NoWidth == 0
NoList == <<>>

\* The defaults of Menu.__init__ the layout works with, in pixels.
_selection_highlight_margin_x == 16
_selection_highlight_margin_y == 4
_selection_border_width == 1
_widget_font_size == 35
_widget_margin_x == 0
_widget_margin_y == 15
_widget_offset_x == 0
_widget_offset_y == 0
_title_font_size == 45
\* selection_highlight=True, counted as 1 where the code does arithmetic
\* with it.
_selection_highlight == 1

\* The size of the menus of the trees.
MenuWidth == 600
MenuHeight == 400

\* The width of the rendered text of a button or label of the trees.
TextWidth == 100

\* A widget: its ID, is_selectable, selected, the menu a button opens (or
\* NoMenu), what get_value() returns, the width of its rect, the max width
\* it was given (or None) and the position set_position gave it. Its rect
\* is as high as its font.
WidgetId(id, selectable, action, value) ==
    [id |-> id, selectable |-> selectable, selected |-> FALSE,
     action |-> action, value |-> value,
     width |-> TextWidth, max_width |-> NoWidth, position |-> <<0, 0>>]

\* The widget with a rect of the given width.
Sized(widget, width) == [widget EXCEPT !.width = width]

\* A button or label added without an explicit ID.
Widget(selectable, action) == WidgetId(AutoId, selectable, action, NoValue)

\* ---------------------------------------------------------------- _select
RECURSIVE _select(_, _, _)
_select(st, self, new_index) ==
    LET current == st.current[st.top[self]]
        n == Len(st.widgets[current])
    IN  IF n = 0 THEN st
        ELSE LET ni == new_index % n
                 old == st.index[current]
             IN  IF ni = old THEN st
                 ELSE IF old >= n THEN [st EXCEPT !.err = "IndexError"]
                 ELSE IF ~st.widgets[current][ni + 1].selectable
                      THEN IF st.widget_selected[current]
                           THEN _select(st, current, ni + 1)
                           ELSE st
                 ELSE [st EXCEPT
                         !.widgets[current] =
                             [@ EXCEPT ![old + 1].selected = FALSE,
                                       ![ni + 1].selected = TRUE],
                         !.index[current] = ni,
                         !.scroll = Append(@, [menu |-> current, index |-> ni,
                                               top |-> (ni = 0)])]

\* ---------------------------------------------------------- _left / _right
_left(st, self) ==
    IF st.index[self] >= st.rows[self]
    THEN _select(st, self, st.index[self] - st.rows[self])
    ELSE _select(st, self, 0)

_right(st, self) ==
    IF st.index[self] + st.rows[self] < Len(st.widgets[self])
    THEN _select(st, self, st.index[self] + st.rows[self])
    ELSE _select(st, self, Len(st.widgets[self]) - 1)

\* ---------------------------------------------------------- _append_widget
\* _append_widget selecting every selectable widget it is handed.
_append_widget_always(st, self, widget) ==
    LET take == widget.selectable
        w == IF take THEN [widget EXCEPT !.selected = TRUE] ELSE widget
    IN  IF st.columns[self] > 1
           /\ Len(st.widgets[self]) + 1 > st.columns[self] * st.rows[self]
        THEN [st EXCEPT !.err = "AssertionError"]
        ELSE [st EXCEPT
                !.widgets[self] = Append(@, w),
                !.widget_selected[self] = IF take THEN TRUE ELSE @,
                !.index[self] = IF take THEN Len(st.widgets[self]) ELSE @,
                !.widgets_surface[self] = FALSE,
                !.surface_size[self] = NoList]

_append_widget(st, self, widget) ==
    LET take == ~st.widget_selected[self] /\ widget.selectable
        w == IF take THEN [widget EXCEPT !.selected = TRUE] ELSE widget
    IN  IF st.columns[self] > 1
           /\ Len(st.widgets[self]) + 1 > st.columns[self] * st.rows[self]
        THEN [st EXCEPT !.err = "AssertionError"]
        ELSE [st EXCEPT
                !.widgets[self] = Append(@, w),
                !.widget_selected[self] = IF take THEN TRUE ELSE @,
                !.index[self] = IF take THEN Len(st.widgets[self]) ELSE @,
                !.widgets_surface[self] = FALSE,
                !.surface_size[self] = NoList]

\* ------------------------------------------------------ _check_id_duplicated
\* The check leaving its loop after the first widget.
_check_id_first(st, self, widget_id) ==
    /\ Len(st.widgets[self]) > 0
    /\ st.widgets[self][1].id = widget_id
    /\ widget_id # AutoId

\* TRUE when the check raises ValueError.
_check_id_duplicated(st, self, widget_id) ==
    \E i \in 1..Len(st.widgets[self]) :
        st.widgets[self][i].id = widget_id /\ widget_id # AutoId

\* list[i] of Python: a negative index counts from the end of the list.
InRange(list, i) == -Len(list) <= i /\ i < Len(list)

At(list, i) == IF i < 0 THEN list[Len(list) + i + 1] ELSE list[i + 1]

\* The column _configure_widget computes for the widget it is handed, from
\* the length of the list before the widget is appended.
_col(st, self) == (Len(st.widgets[self]) - 1) \div st.rows[self]

\* _configure_widget: the steps that can fail are the ID check and, with
\* force-fit, the look-up of the column's max width.
_configure_widget(st, self, widget) ==
    IF _check_id_duplicated(st, self, widget.id)
    THEN [st EXCEPT !.err = "ValueError"]
    ELSE IF /\ st.force_fit_text[self]
            /\ ~InRange(st.column_max_width[self], _col(st, self))
         THEN [st EXCEPT !.err = "IndexError"]
         ELSE st

\* The widget as _configure_widget leaves it: with force-fit and a max
\* width of the column, set_max_width(max width - selection_dx).
configured(st, self, widget) ==
    IF /\ st.force_fit_text[self]
       /\ At(st.column_max_width[self], _col(st, self)) # NoWidth
    THEN [widget EXCEPT !.max_width =
              At(st.column_max_width[self], _col(st, self))
                  - (_selection_highlight_margin_x + _selection_border_width)]
    ELSE widget

\* add_button / add_selector / add_text_input / add_color_input and the
\* unwrapped add_label: all act on self._current; add_button registers a
\* Menu action as sub-menu first.
add_widget(st, self, widget) ==
    LET c == st.current[self]
        s1 == IF widget.action # NoMenu
              THEN [st EXCEPT !.submenus[c] = Append(@, widget.action)]
              ELSE st
        s2 == _configure_widget(s1, c, widget)
    IN  IF s2.err # "none" THEN s2
        ELSE _append_widget(s2, c, configured(s2, c, widget))

\* add_label: a title longer than max_char is wrapped into lines, each
\* added as a label of its own with the ID label_id+k.
RECURSIVE add_label_lines(_, _, _, _, _)
add_label_lines(st, self, label_id, k, lines) ==
    IF k > lines THEN st
    ELSE LET s1 == add_widget(st, self,
                       WidgetId(label_id \o "+" \o ToString(k), FALSE, NoMenu,
                                NoValue))
         IN  IF s1.err # "none" THEN s1
             ELSE add_label_lines(s1, self, label_id, k + 1, lines)

add_label(st, self, label_id, lines) ==
    IF lines <= 1
    THEN add_widget(st, self, WidgetId(label_id, FALSE, NoMenu, NoValue))
    ELSE IF _check_id_duplicated(st, st.current[self], label_id)
         THEN [st EXCEPT !.err = "ValueError"]
         ELSE add_label_lines(st, self, label_id, 1, lines)

\* ---------------------------------------------------------- get_input_data
\* data[widget.get_id()] = widget.get_value() over the widgets of a menu.
widget_data(ws) ==
    LET holders == {i \in 1..Len(ws) : ws[i].value # NoValue}
    IN  [k \in {ws[i].id : i \in holders} |->
            LET last == CHOOSE i \in holders :
                            /\ ws[i].id = k
                            /\ \A j \in holders : ws[j].id = k => j <= i
            IN  ws[last].value]

\* dict.update
dict_update(d, e) ==
    [k \in DOMAIN d \cup DOMAIN e |-> IF k \in DOMAIN e THEN e[k] ELSE d[k]]

RECURSIVE get_input_data(_, _, _)
RECURSIVE merge_submenus(_, _, _, _)
\* The loop over self._current._submenus, from the k-th on.
merge_submenus(st, submenus, k, d) ==
    IF k > Len(submenus) THEN [err |-> "none", data |-> d]
    ELSE LET sub == get_input_data(st, submenus[k], TRUE)
         IN  IF sub.err # "none" THEN sub
             ELSE IF DOMAIN sub.data \cap DOMAIN d # {}
                  THEN [err |-> "ValueError", data |-> d]
                  ELSE merge_submenus(st, submenus, k + 1,
                                      dict_update(d, sub.data))

get_input_data(st, self, recursive) ==
    LET c == st.current[self]
        d == widget_data(st.widgets[c])
    IN  IF recursive THEN merge_submenus(st, st.submenus[c], 1, d)
        ELSE [err |-> "none", data |-> d]

\* ------------------------------------------------------------ _get_depth
\* _get_depth with "if" in place of "while": one link is walked at most.
walk_once(prev) == IF prev = <<>> THEN 0 ELSE 1

RECURSIVE walk(_)
walk(prev) == IF prev = <<>> THEN 0 ELSE 1 + walk(Front(prev))

_get_depth(st, self) == walk(st.prev[st.top[self]])

\* ------------------------------------------------------------------ _open
\* _open without "menu._top = self._top".
_open_keep_top(st, self, menu) ==
    LET t == st.top[self]
        s2 == [st EXCEPT !.current[t] = st.current[menu],
                         !.prev[t] = Append(@, self),
                         !.net = @ + 1]
    IN  _select(s2, self, 0)

_open(st, self, menu) ==
    LET s1 == [st EXCEPT !.top[menu] = st.top[self]]
        t == s1.top[self]
        s2 == [s1 EXCEPT !.current[t] = s1.current[menu],
                         !.prev[t] = Append(@, self),
                         !.net = @ + 1]
    IN  _select(s2, self, 0)

\* ------------------------------------------------------------------ reset
\* reset testing "i == total" before counting the level it popped.
RECURSIVE resetLoop_late(_, _, _, _)
resetLoop_late(st, self, i, total) ==
    LET t == st.top[self]
    IN  IF st.prev[t] # <<>>
        THEN LET s1 == [st EXCEPT !.current[t] = Last(st.prev[t]),
                                  !.prev[t] = Front(st.prev[t]),
                                  !.net = @ - 1]
             IN  IF i = total THEN s1 ELSE resetLoop_late(s1, self, i + 1, total)
        ELSE st

RECURSIVE resetLoop(_, _, _, _)
resetLoop(st, self, i, total) ==
    LET t == st.top[self]
    IN  IF st.prev[t] # <<>>
        THEN LET s1 == [st EXCEPT !.current[t] = Last(st.prev[t]),
                                  !.prev[t] = Front(st.prev[t]),
                                  !.net = @ - 1]
             IN  IF i + 1 = total THEN s1 ELSE resetLoop(s1, self, i + 1, total)
        ELSE st

\* reset without its "total > 0" assertion.
reset_unchecked(st, self, total) ==
    LET s1 == resetLoop(st, self, 0, total)
    IN  _select(s1, s1.current[self], s1.index[s1.current[s1.top[self]]])

reset(st, self, total) ==
    IF total <= 0 THEN [st EXCEPT !.err = "AssertionError"]
    ELSE LET s1 == resetLoop(st, self, 0, total)
         IN  _select(s1, s1.current[self], s1.index[s1.current[s1.top[self]]])

\* full_reset stopping one level above the root.
full_reset_short(st, self) ==
    LET depth == _get_depth(st, st.current[self])
    IN  IF depth > 1 THEN reset(st, self, depth - 1) ELSE st

full_reset(st, self) ==
    LET depth == _get_depth(st, st.current[self])
    IN  IF depth > 0 THEN reset(st, self, depth) ELSE st

clear(st, self) ==
    LET s1 == full_reset(st, self)
    IN  IF s1.err # "none" THEN s1
        ELSE [s1 EXCEPT !.widgets[s1.current[self]] = <<>>,
                        !.submenus[s1.current[self]] = <<>>]

\* -------------------------------------------------------- enable / disable
is_enabled(st, self) == st.enabled[st.top[self]]

disable(st, self, closelocked) ==
    IF is_enabled(st, self)
    THEN [st EXCEPT !.enabled[st.top[self]] = FALSE,
                    !.closelocked[st.top[self]] = closelocked]
    ELSE st

enable(st, self) ==
    IF ~st.enabled[st.top[self]]
    THEN [st EXCEPT !.enabled[st.top[self]] = TRUE,
                    !.closelocked[st.top[self]] = TRUE]
    ELSE st

\* ----------------------------------------------------------------- layout
MaxOf(S) == CHOOSE x \in S : \A y \in S : y <= x

\* list[0] + ... + list[n - 1]
RECURSIVE SumTo(_, _)
SumTo(list, n) == IF n = 0 THEN 0 ELSE SumTo(list, n - 1) + list[n]

\* The 1-based places of the widgets the layout puts in column col
\* (0-based): index // rows = col.
InColumn(st, self, col) ==
    {k \in 1..Len(st.widgets[self]) : (k - 1) \div st.rows[self] = col}

\* The 1-based places of the widgets whose column the menu does not have.
Overflowing(st, self, columns) ==
    {k \in 1..Len(st.widgets[self]) : (k - 1) \div st.rows[self] >= columns}

\* _update_column_width, in exact arithmetic: a width the code scales to a
\* float is kept as its integer part. The look-up of the max width of a
\* column the menu does not have raises IndexError and leaves the widths as
\* far as the loop got, unscaled, and no column positions.
_update_column_width(st, self) ==
    LET columns == st.columns[self]
        max_width == st.column_max_width[self]
        ws == st.widgets[self]
        over == Overflowing(st, self, columns)
        base == [i \in 1..columns |->
                    IF max_width[i] # NoWidth THEN max_width[i]
                    ELSE MaxOf({0} \cup
                               {ws[k].width + _selection_highlight_margin_x :
                                    k \in InColumn(st, self, i - 1)})]
        sum == SumTo(base, columns)
        scaled == 0 < sum /\ sum < st.width[self]
        total_col_width == IF scaled THEN st.width[self] ELSE sum
        widths == [i \in 1..columns |->
                      IF scaled THEN (base[i] * st.width[self]) \div sum
                      ELSE base[i]]
        posx == [i \in 1..columns |->
                    (total_col_width * (2 * SumTo(base, i - 1) + base[i]))
                        \div (2 * MaxOf({sum, 1}))]
    IN  IF over # {}
        THEN [st EXCEPT !.column_widths[self] = base, !.err = "IndexError"]
        ELSE IF columns > 1
             THEN [st EXCEPT !.column_widths[self] = widths,
                             !.column_posx[self] = posx]
             ELSE [st EXCEPT !.column_widths[self] = <<total_col_width>>,
                             !.column_posx[self] = <<total_col_width \div 2>>]

\* The position _update_widget_position gives the widget at index (0-based):
\* centred in its column, below the widgets of the rows above it.
widget_position(st, self, index) ==
    LET widget == st.widgets[self][index + 1]
        col == index \div st.rows[self]
        _row == index % st.rows[self]
        dx == -(widget.width \div 2)
        ysum == _row * (_widget_font_size + _widget_margin_y)
        dy == _selection_highlight_margin_y + _selection_border_width
                  - _selection_highlight
    IN  <<_widget_offset_x + st.column_posx[self][col + 1] + dx
              + _widget_margin_x,
          _widget_offset_y + ysum + dy>>

\* The column widths are computed when there are none yet. The loop over the
\* widgets stops with an exception at the first widget whose column has
\* no width or, after a failed _update_column_width, no position.
_update_widget_position(st, self) ==
    LET s1 == IF st.column_widths[self] = NoList
              THEN _update_column_width(st, self)
              ELSE st
        n == Len(s1.widgets[self])
        over == Overflowing(s1, self, Len(s1.column_widths[self]))
        reached == IF s1.column_posx[self] = NoList THEN 0
                   ELSE IF over = {} THEN n
                   ELSE MaxOf({0} \cup {k \in 1..n : \A j \in over : k < j})
        s2 == [s1 EXCEPT !.widgets[self] =
                  [k \in 1..n |->
                      IF k <= reached
                      THEN [s1.widgets[self][k] EXCEPT
                               !.position = widget_position(s1, self, k - 1)]
                      ELSE s1.widgets[self][k]]]
    IN  IF s1.err # "none" THEN s1
        ELSE IF reached = n THEN s2
        ELSE IF s1.column_posx[self] = NoList
             THEN [s2 EXCEPT !.err = "AttributeError"]
        ELSE [s2 EXCEPT !.err = "IndexError"]

\* The start value of _get_widget_max_position (-1e6).
NoPosition == -1000000

\* Widget.get_position(): the corners of the rect at the position set.
get_position(widget) ==
    <<widget.position[1], widget.position[2],
      widget.position[1] + widget.width,
      widget.position[2] + _widget_font_size>>

_get_widget_max_position(st, self) ==
    LET ws == st.widgets[self]
    IN  <<MaxOf({NoPosition} \cup {get_position(ws[k])[3] : k \in 1..Len(ws)}),
          MaxOf({NoPosition} \cup {get_position(ws[k])[4] : k \in 1..Len(ws)})>>

\* The size of the surface _build_widget_surface makes.
SurfaceSize(width, height, menubar, max_x, max_y) ==
    IF max_x > width /\ max_y > height - menubar
    THEN <<max_x + 20, max_y + 20>>
    ELSE IF max_x > width THEN <<max_x + 20, height - menubar - 20>>
    ELSE IF max_y > height THEN <<width - 20, max_y + 20>>
    ELSE <<width, height - menubar>>

\* The surface made once the widgets are placed.
make_surface(s1, self) ==
    LET max == _get_widget_max_position(s1, self)
    IN  IF s1.err # "none" THEN s1
        ELSE [s1 EXCEPT
                !.widgets_surface[self] = TRUE,
                !.surface_size[self] =
                    SurfaceSize(s1.width[self], s1.height[self],
                                s1.menubar_height[self], max[1], max[2])]

_build_widget_surface(st, self) ==
    make_surface(_update_widget_position(st, self), self)

\* ------------------------------------------------------------------- draw
\* draw without its is_enabled() test.
draw_unchecked(st, self) ==
    LET c == st.current[self]
    IN  IF ~st.widgets_surface[c]
        THEN _build_widget_surface(st, c)
        ELSE st

\* The widgets surface is rebuilt when a change of the widgets erased it;
\* drawing the widgets, the scroll area and the menu bar changes no field.
draw(st, self) ==
    IF ~is_enabled(st, self) THEN [st EXCEPT !.err = "RuntimeError"]
    ELSE LET c == st.current[self]
         IN  IF ~st.widgets_surface[c]
             THEN _build_widget_surface(st, c)
             ELSE st

\* ---------------------------------------------------------- _close / _back
_close(st, self, closelocked) ==
    LET onclose == st.onclose[self]
    IN  IF onclose = "NONE" \/ onclose = "DISABLE_CLOSE" THEN st
        ELSE LET s1 == disable(st, self, closelocked)
             IN  IF onclose = "RESET" THEN full_reset(s1, self)
                 ELSE IF onclose = "BACK" THEN reset(s1, self, 1)
                 ELSE s1

\* _back reading self._prev in place of self._top._prev.
_back_own_prev(st, self) ==
    IF st.prev[self] # <<>> THEN reset(st, self, 1)
    ELSE _close(st, self, TRUE)

_back(st, self) ==
    IF st.prev[st.top[self]] # <<>> THEN reset(st, self, 1)
    ELSE _close(st, self, TRUE)

\* ------------------------------------------------------ _handle_joy_event
\* The direction bits of Menu._joy_event.
_JOY_EVENT_LEFT == 1
_JOY_EVENT_RIGHT == 2
_JOY_EVENT_UP == 4
_JOY_EVENT_DOWN == 8

\* mask & bit, for a bit that is a power of two.
BitSet(mask, bit) == (mask \div bit) % 2 = 1

_handle_joy_event(st, self) ==
    LET joy == st.joy_event[self]
        s1 == IF BitSet(joy, _JOY_EVENT_UP)
              THEN _select(st, self, st.index[self] - 1) ELSE st
        s2 == IF s1.err = "none" /\ BitSet(joy, _JOY_EVENT_DOWN)
              THEN _select(s1, self, s1.index[self] + 1) ELSE s1
        s3 == IF s2.err = "none" /\ BitSet(joy, _JOY_EVENT_LEFT)
              THEN _left(s2, self) ELSE s2
    IN  IF s3.err = "none" /\ BitSet(joy, _JOY_EVENT_RIGHT)
        THEN _right(s3, self) ELSE s3

\* pygame.time.set_timer(_JOY_EVENT_REPEAT, interval): an armed timer posts
\* repeat events to the queue until it is set to 0.
set_timer(st, interval) ==
    [st EXCEPT !.timer = interval, !.queued = @ \/ interval # "off"]

\* TRUE when _close returns True (the menu has been disabled).
_close_returns(st, self) == st.onclose[self] \notin {"NONE", "DISABLE_CLOSE"}

\* ----------------------------------------------------------------- update
\* An event of a batch: its kind and, for the mouse, the index of the
\* widget under the pointer. BAR_BACK is a click on the menu bar's back
\* box, SCROLL a drag of a scroll bar, KEY_APPLY the key a button takes.
\* JOY_UP .. JOY_RIGHT are hat motions. For JOY_AXIS_X and JOY_AXIS_Y the
\* field "at" is the side of the deadzone the value lies on: -1 below
\* -JOY_DEADZONE, 1 above JOY_DEADZONE, 0 inside. REPEAT is
\* _JOY_EVENT_REPEAT.
\* Menus are built with joystick and mouse enabled (the defaults).
Event(type, at) == [type |-> type, at |-> at]

HasEvent(events, type) == \E k \in 1..Len(events) : events[k].type = type

SetBreak(st) == [st EXCEPT !.data = [break_mainloop |-> TRUE]]

Offer(st, to, consumed) ==
    [st EXCEPT !.offered = Append(@, [to |-> to, consumed |-> consumed])]

\* Button.apply(): a button whose action is a menu calls _open on the menu
\* that held it when it was added; labels take no event.
widget_apply(st, holder, widget) ==
    IF widget.action # NoMenu THEN _open(st, holder, widget.action) ELSE st

\* One event of the "check others" loop.
update_event(st, self, event) ==
    LET c == st.current[self]
        i == st.index[c]
    IN  CASE event.type = "KEY_MOVE_DOWN" -> _select(st, c, i - 1)
          [] event.type = "KEY_MOVE_UP" -> _select(st, c, i + 1)
          [] event.type = "KEY_LEFT" ->
                 IF st.columns[c] > 1 THEN _left(st, c) ELSE st
          [] event.type = "KEY_RIGHT" ->
                 IF st.columns[c] > 1 THEN _right(st, c) ELSE st
          [] event.type = "KEY_BACK" ->
                 IF st.prev[st.top[self]] # <<>> THEN reset(st, self, 1) ELSE st
          [] event.type = "KEY_CLOSE_MENU" ->
                 IF ~st.closelocked[c]
                 THEN LET s1 == _close(st, c, TRUE)
                      IN  IF _close_returns(st, c) THEN SetBreak(s1) ELSE s1
                 ELSE st
          [] event.type = "JOY_UP" -> _select(st, c, i - 1)
          [] event.type = "JOY_DOWN" -> _select(st, c, i + 1)
          [] event.type = "JOY_LEFT" ->
                 IF st.columns[self] > 1 THEN _select(st, c, i - 1) ELSE st
          [] event.type = "JOY_RIGHT" ->
                 IF st.columns[self] > 1 THEN _select(st, c, i + 1) ELSE st
          [] event.type \in {"JOY_AXIS_X", "JOY_AXIS_Y"} ->
                 LET prev == st.joy_event[c]
                     y == event.type = "JOY_AXIS_Y"
                     x == event.type = "JOY_AXIS_X"
                     bits ==
                         (IF y /\ event.at < 0 THEN _JOY_EVENT_UP ELSE 0)
                         + (IF y /\ event.at > 0 THEN _JOY_EVENT_DOWN ELSE 0)
                         + (IF x /\ event.at < 0 /\ st.columns[self] > 1
                            THEN _JOY_EVENT_LEFT ELSE 0)
                         + (IF x /\ event.at > 0 /\ st.columns[self] > 1
                            THEN _JOY_EVENT_RIGHT ELSE 0)
                     s1 == [st EXCEPT !.joy_event[c] = bits,
                                      !.resting = (event.at = 0)]
                 IN  IF bits # 0
                     THEN LET s2 == _handle_joy_event(s1, c)
                          IN  IF s2.err # "none" THEN s2
                              ELSE set_timer(s2, IF s2.joy_event[c] = prev
                                                 THEN "JOY_REPEAT"
                                                 ELSE "JOY_DELAY")
                     ELSE set_timer(s1, "off")
          [] event.type = "REPEAT" ->
                 IF st.joy_event[c] # 0
                 THEN LET s1 == _handle_joy_event(st, c)
                      IN  IF s1.err # "none" THEN s1
                          ELSE set_timer(s1, "JOY_REPEAT")
                 ELSE set_timer(st, "off")
          [] event.type = "MOUSEBUTTONDOWN" ->
                 IF event.at < Len(st.widgets[c]) THEN _select(st, c, event.at)
                 ELSE st
          [] event.type = "MOUSEBUTTONUP" ->
                 IF i >= Len(st.widgets[c]) THEN [st EXCEPT !.err = "IndexError"]
                 ELSE IF event.at = i
                      THEN SetBreak(widget_apply(st, c, st.widgets[c][i + 1]))
                      ELSE st
          [] OTHER -> st

\* The loop over the events, from the k-th on; a consumed MOUSEBUTTONUP
\* leaves the loop, an exception leaves update.
RECURSIVE update_events(_, _, _, _)
\* After the k-th event: the break of a consumed MOUSEBUTTONUP, else the
\* next event.
update_next(s1, hit, self, events, k) ==
    IF s1.err # "none" \/ hit THEN s1
    ELSE update_events(s1, self, events, k + 1)

update_events(st, self, events, k) ==
    IF k > Len(events) THEN st
    ELSE LET c == st.current[self]
             hit == /\ events[k].type = "MOUSEBUTTONUP"
                    /\ events[k].at = st.index[c]
                    /\ st.index[c] < Len(st.widgets[c])
         IN  update_next(update_event(st, self, events[k]), hit, self,
                         events, k)

\* update_end without the release of the close lock.
update_end_locked(st, self) ==
    LET c == st.current[self]
    IN  IF Len(st.widgets[c]) > 0 /\ st.index[c] >= Len(st.widgets[c])
        THEN [st EXCEPT !.err = "IndexError"]
        ELSE IF ~is_enabled(st, self) THEN SetBreak(st) ELSE st

\* The end of update: the surface test reads the selected widget, a
\* disabled tree stops the main loop, the close lock is released.
update_end(st, self) ==
    LET c == st.current[self]
    IN  IF Len(st.widgets[c]) > 0 /\ st.index[c] >= Len(st.widgets[c])
        THEN [st EXCEPT !.err = "IndexError"]
        ELSE LET s1 == IF ~is_enabled(st, self) THEN SetBreak(st) ELSE st
             IN  [s1 EXCEPT !.closelocked[c] = FALSE]

\* update_rest with a plain "if" on the selected widget: the loop runs even
\* when the widget has consumed the batch.
update_rest_through(st, self, events) ==
    LET c == st.current[self]
        ws == st.widgets[c]
        scrolled == HasEvent(events, "SCROLL")
        s1 == Offer(st, "scroll", scrolled)
    IN  IF scrolled THEN SetBreak(s1)
        ELSE IF Len(ws) > 0 /\ st.index[c] >= Len(ws)
             THEN [s1 EXCEPT !.err = "IndexError"]
        ELSE IF Len(ws) > 0
                /\ ws[st.index[c] + 1].selectable
                /\ HasEvent(events, "KEY_APPLY")
             THEN update_events(
                      Offer(SetBreak(widget_apply(Offer(s1, "widget", TRUE), c,
                                                  ws[st.index[c] + 1])),
                            "nav", FALSE),
                      self, events, 1)
        ELSE update_events(
                 Offer(IF Len(ws) > 0 THEN Offer(s1, "widget", FALSE) ELSE s1,
                       "nav", FALSE),
                 self, events, 1)

\* The scroll area, then the selected widget, then the loop.
update_rest(st, self, events) ==
    LET c == st.current[self]
        ws == st.widgets[c]
        scrolled == HasEvent(events, "SCROLL")
        s1 == Offer(st, "scroll", scrolled)
    IN  IF scrolled THEN SetBreak(s1)
        ELSE IF Len(ws) > 0 /\ st.index[c] >= Len(ws)
             THEN [s1 EXCEPT !.err = "IndexError"]
        ELSE IF Len(ws) > 0
                /\ ws[st.index[c] + 1].selectable
                /\ HasEvent(events, "KEY_APPLY")
             THEN SetBreak(widget_apply(Offer(s1, "widget", TRUE), c,
                                        ws[st.index[c] + 1]))
        ELSE update_events(
                 Offer(IF Len(ws) > 0 THEN Offer(s1, "widget", FALSE) ELSE s1,
                       "nav", FALSE),
                 self, events, 1)

\* The last statements of update, unless an exception left it before.
update_finish(s3, self) ==
    IF s3.err # "none" THEN s3 ELSE update_end(s3, self)

update(st, self, events) ==
    LET s0 == [st EXCEPT !.data = [break_mainloop |->
                                       ~st.mainloop_loop[st.current[self]]],
                         !.queued = st.timer # "off"]
        backed == HasEvent(events, "BAR_BACK")
        s1 == Offer(s0, "menubar", backed)
        s2 == IF backed THEN SetBreak(_back(s1, s1.current[self])) ELSE s1
    IN  update_finish(IF s2.err # "none" THEN s2
                      ELSE update_rest(s2, self, events), self)

\* --------------------------------------------------------------- mainloop
\* The entry of mainloop: it returns at once on a disabled tree, else it
\* starts to loop.
mainloop_enter(st, self, event_loop, disable_loop) ==
    [st EXCEPT !.mainloop =
        [pc |-> IF is_enabled(st, self) THEN "in" ELSE "out",
         disable_loop |-> disable_loop, event_loop |-> event_loop,
         ticks |-> 0, drew |-> FALSE]]

\* The events of a tick: those of the queue for a looping current menu,
\* else the event_loop argument.
tick_events(st, self, queue) ==
    IF st.mainloop_loop[st.current[self]] THEN queue
    ELSE st.mainloop.event_loop

\* The end of a pass of the "while True": mainloop returns if update said
\* so or disable_loop is set. An exception leaves mainloop.
tick_end(s2, draws, disable_loop) ==
    [s2 EXCEPT !.mainloop.ticks = @ + 1,
               !.mainloop.drew = draws,
               !.mainloop.pc = IF \/ s2.err # "none"
                                  \/ s2.data.break_mainloop
                                  \/ disable_loop
                               THEN "out" ELSE "in"]

\* The pass after update without the is_enabled() test before draw.
tick_draw_blind(s1, self, disable_loop) ==
    tick_end(IF s1.err # "none" THEN s1 ELSE draw(s1, self),
             s1.err = "none", disable_loop)

\* The pass after update: draw if the tree is still enabled.
tick_draw(s1, self, disable_loop) ==
    LET draws == s1.err = "none" /\ is_enabled(s1, self)
    IN  tick_end(IF draws THEN draw(s1, self) ELSE s1, draws, disable_loop)

\* One pass of the "while True" that draws a disabled tree too.
mainloop_tick_blind(st, self, queue) ==
    tick_draw_blind(update(st, self, tick_events(st, self, queue)), self,
                    st.mainloop.disable_loop)

\* One pass of the "while True": update, draw if the tree is still enabled,
\* return if update said so or disable_loop is set.
mainloop_tick(st, self, queue) ==
    tick_draw(update(st, self, tick_events(st, self, queue)), self,
              st.mainloop.disable_loop)

\* ------------------------------------------------------------- ColorInput
\* An RGB colour input with the default separator. Strings are sequences of
\* one-character strings.
_separator == ","

Digits == {"0", "1", "2", "3", "4", "5", "6", "7", "8", "9"}

DigitValue(ch) ==
    CASE ch = "0" -> 0 [] ch = "1" -> 1 [] ch = "2" -> 2 [] ch = "3" -> 3
      [] ch = "4" -> 4 [] ch = "5" -> 5 [] ch = "6" -> 6 [] ch = "7" -> 7
      [] ch = "8" -> 8 [] ch = "9" -> 9

\* int(s) of a non-empty string of digits.
RECURSIVE int(_)
int(s) ==
    IF Len(s) = 1 THEN DigitValue(s[1])
    ELSE 10 * int(Front(s)) + DigitValue(Last(s))

\* str.split(sep): the pieces between the separators, empty pieces included.
RECURSIVE split(_, _)
split(s, sep) ==
    IF \A k \in 1..Len(s) : s[k] # sep THEN <<s>>
    ELSE LET k == CHOOSE i \in 1..Len(s) :
                      s[i] = sep /\ \A j \in 1..(i - 1) : s[j] # sep
         IN  <<SubSeq(s, 1, k - 1)>> \o split(SubSeq(s, k + 1, Len(s)), sep)

get_value(input_string) ==
    LET _color == split(input_string, _separator)
    IN  IF /\ Len(_color) = 3
           /\ _color[1] # <<>> /\ _color[2] # <<>> /\ _color[3] # <<>>
        THEN LET r == int(_color[1])
                 g == int(_color[2])
                 b == int(_color[3])
             IN  IF /\ 0 <= r /\ r <= 255
                    /\ 0 <= g /\ g <= 255
                    /\ 0 <= g /\ g <= 255
                 THEN <<r, g, b>>
                 ELSE <<-1, -1, -1>>
        ELSE <<-1, -1, -1>>

is_valid(input_string) ==
    LET v == get_value(input_string)
    IN  ~(v[1] = -1 \/ v[2] = -1 \/ v[3] = -1)

\* A hex colour input with hex_format 'none'.
HexDigits ==
    Digits \cup {"a", "b", "c", "d", "e", "f", "A", "B", "C", "D", "E", "F"}

_valid_chars == HexDigits \cup {"#"}

IsValidChar(ch) == ch \in _valid_chars

IsHash(ch) == ch = "#"

HexDigitValue(ch) ==
    CASE ch \in Digits -> DigitValue(ch)
      [] ch \in {"a", "A"} -> 10 [] ch \in {"b", "B"} -> 11
      [] ch \in {"c", "C"} -> 12 [] ch \in {"d", "D"} -> 13
      [] ch \in {"e", "E"} -> 14 [] ch \in {"f", "F"} -> 15

\* str.strip() of a text whose only whitespace is the blank.
RECURSIVE strip(_)
strip(s) ==
    IF s = <<>> THEN s
    ELSE IF s[1] = " " THEN strip(Tail(s))
    ELSE IF Last(s) = " " THEN strip(Front(s))
    ELSE s

\* int(s, 16) of two hex digits.
int16(s) == 16 * HexDigitValue(s[1]) + HexDigitValue(s[2])

\* get_value() of the hex input: the three channels or (-1, -1, -1) as
\* value; int() raises ValueError on a pair that holds a '#'.
get_value_hex(input_string) ==
    IF Len(input_string) = 7
    THEN LET _color == Tail(input_string)
             channels == [i \in 1..3 |-> SubSeq(_color, 2 * i - 1, 2 * i)]
         IN  IF \E i \in 1..3 : \E k \in 1..2 : channels[i][k] \notin HexDigits
             THEN [err |-> "ValueError", value |-> <<>>]
             ELSE [err |-> "none",
                   value |-> [i \in 1..3 |-> int16(channels[i])]]
    ELSE [err |-> "none", value |-> <<-1, -1, -1>>]

\* set_value(color) of the hex input; TextInput.set_value stores the text.
set_value_hex(st, color) ==
    LET text == strip(color)
        valid == SelectSeq(text, IsValidChar)
        count_hash == Len(SelectSeq(valid, IsHash))
        full == IF count_hash = 0 THEN <<"#">> \o valid ELSE valid
    IN  IF text = <<>> THEN [st EXCEPT !.input_string = <<"#">>]
        ELSE IF count_hash = 1 /\ valid[1] # "#"
             THEN [st EXCEPT !.err = "AssertionError"]
        ELSE IF Len(full) # 7 THEN [st EXCEPT !.err = "AssertionError"]
        ELSE [st EXCEPT !.input_string = full]

\* ------------------------------------------------------------ the actions
\* The menu of the tree that receives input.
Current == _current[_top[Root]]

\* The state an operation leaves, its name, and the menu it opened (or NoMenu).
Commit(s, o, menu) ==
    /\ _widgets' = s.widgets
    /\ _index' = s.index
    /\ _widget_selected' = s.widget_selected
    /\ _submenus' = s.submenus
    /\ _current' = s.current
    /\ _top' = s.top
    /\ _prev' = s.prev
    /\ _enabled' = s.enabled
    /\ _closelocked' = s.closelocked
    /\ _onclose' = s.onclose
    /\ _columns' = s.columns
    /\ _rows' = s.rows
    /\ _widgets_surface' = s.widgets_surface
    /\ surface_size' = s.surface_size
    /\ _width' = s.width
    /\ _height' = s.height
    /\ menubar_height' = s.menubar_height
    /\ _column_max_width' = s.column_max_width
    /\ _column_widths' = s.column_widths
    /\ _column_posx' = s.column_posx
    /\ _force_fit_text' = s.force_fit_text
    /\ _mainloop_loop' = s.mainloop_loop
    /\ mainloop' = s.mainloop
    /\ _joy_event' = s.joy_event
    /\ timer' = s.timer
    /\ queued' = s.queued
    /\ resting' = s.resting
    /\ batch' = s.batch
    /\ prior' = s.prior
    /\ _input_string' = s.input_string
    /\ data' = s.data
    /\ offered' = s.offered
    /\ scroll' = s.scroll
    /\ err' = s.err
    /\ net' = s.net
    /\ op' = [name |-> o, popped |-> IF net > s.net THEN net - s.net ELSE 0,
              from |-> Current]
    /\ opened' = IF menu = NoMenu THEN opened ELSE opened \cup {menu}

\* The menus whose navigation state is the root's: the root and every menu
\* that has been opened. reset, full_reset, enable and disable reach the
\* application through the root object or through a widget of such a menu.
InTree(m) == _top[m] = Root

\* The widgets a menu is given: labels (not selectable) in the sub-menus,
\* and buttons that open a sub-menu.
Kinds(m) ==
    (IF m # Root THEN {Widget(FALSE, NoMenu)} ELSE {})
        \cup {Widget(TRUE, t) : t \in LinkTargets(m)}

\* menu.add_button(...), menu.add_label(...) on any menu object.
Add ==
    \E self \in Menus : \E w \in Kinds(_current[self]) :
        /\ SumLen(_widgets, Menus) < MaxWidgets
        /\ Commit(add_widget(State, self, w), "add", NoMenu)

\* The i-th widget of the current menu is a button whose action is a menu:
\* applying it calls _open on the menu that holds the button.
OpenAt(i) ==
    /\ i <= Len(_widgets[Current])
    /\ _widgets[Current][i].action # NoMenu
    /\ Len(_prev[Root]) < MaxDepth
    /\ Commit(_open(State, Current, _widgets[Current][i].action), "open",
              _widgets[Current][i].action)

Open == \E i \in 1..MaxWidgets : OpenAt(i)

\* _select on the current menu: one step up or down, or the index of a
\* widget under the pointer.
SelectAt(i) ==
    /\ i \in {_index[Current] - 1, _index[Current] + 1}
             \cup 0..(Len(_widgets[Current]) - 1)
    /\ Commit(_select(State, Current, i), "select", NoMenu)

MaxIndex == IF MaxGrid > MaxWidgets THEN MaxGrid ELSE MaxWidgets

Select == \E i \in -1..MaxIndex : SelectAt(i)

\* KEY_LEFT / KEY_RIGHT on a menu of several columns.
Left ==
    /\ _columns[Current] > 1
    /\ Commit(_left(State, Current), "left", NoMenu)

Right ==
    /\ _columns[Current] > 1
    /\ Commit(_right(State, Current), "right", NoMenu)

ResetBy(self, total) ==
    /\ InTree(self)
    /\ Commit(reset(State, self, total), "reset", NoMenu)

Reset == \E self \in Menus : \E total \in -1..MaxTotal : ResetBy(self, total)

FullReset ==
    \E self \in Menus :
        /\ InTree(self)
        /\ Commit(full_reset(State, self), "full_reset", NoMenu)

Clear ==
    \E self \in Menus :
        /\ self \in Menus
        /\ Commit(clear(State, self), "clear", NoMenu)

\* The menu bar's back box, or a BACK button, of the current menu.
Back ==
    /\ InTree(Current)
    /\ Commit(_back(State, Current), "back", NoMenu)

Enable ==
    \E self \in Menus :
        /\ InTree(self)
        /\ Commit(enable(State, self), "enable", NoMenu)

Disable ==
    \E self \in Menus :
        /\ InTree(self)
        /\ Commit(disable(State, self, TRUE), "disable", NoMenu)

DrawBy(self) ==
    /\ InTree(self)
    /\ Commit(draw(State, self), "draw", NoMenu)

Draw == \E self \in Menus : DrawBy(self)

\* Every menu is built enabled, with an empty widget list, as its own top
\* and current menu, in one column without a max width, looping in mainloop.
Built(onclose) ==
    [widgets |-> [m \in Menus |-> <<>>],
     index |-> [m \in Menus |-> 0],
     widget_selected |-> [m \in Menus |-> FALSE],
     submenus |-> [m \in Menus |-> <<>>],
     current |-> [m \in Menus |-> m],
     top |-> [m \in Menus |-> m],
     prev |-> [m \in Menus |-> <<>>],
     enabled |-> [m \in Menus |-> TRUE],
     closelocked |-> [m \in Menus |-> FALSE],
     onclose |-> [m \in Menus |-> onclose],
     columns |-> [m \in Menus |-> 1],
     rows |-> [m \in Menus |-> BigRows],
     widgets_surface |-> [m \in Menus |-> FALSE],
     surface_size |-> [m \in Menus |-> NoList],
     width |-> [m \in Menus |-> MenuWidth],
     height |-> [m \in Menus |-> MenuHeight],
     menubar_height |-> [m \in Menus |-> _title_font_size],
     column_max_width |-> [m \in Menus |-> <<NoWidth>>],
     column_widths |-> [m \in Menus |-> NoList],
     column_posx |-> [m \in Menus |-> NoList],
     force_fit_text |-> [m \in Menus |-> FALSE],
     mainloop_loop |-> [m \in Menus |-> TRUE],
     mainloop |-> [pc |-> "out", disable_loop |-> FALSE, event_loop |-> <<>>,
                   ticks |-> 0, drew |-> FALSE],
     joy_event |-> [m \in Menus |-> 0],
     timer |-> "off", queued |-> FALSE, resting |-> FALSE,
     batch |-> <<>>, prior |-> "none",
     input_string |-> <<>>,
     scroll |-> <<>>, err |-> "none", data |-> <<>>, offered |-> <<>>,
     net |-> 0]

Start(s) ==
    /\ _widgets = s.widgets
    /\ _index = s.index
    /\ _widget_selected = s.widget_selected
    /\ _submenus = s.submenus
    /\ _current = s.current
    /\ _top = s.top
    /\ _prev = s.prev
    /\ _enabled = s.enabled
    /\ _closelocked = s.closelocked
    /\ _onclose = s.onclose
    /\ _columns = s.columns
    /\ _rows = s.rows
    /\ _widgets_surface = s.widgets_surface
    /\ surface_size = s.surface_size
    /\ _width = s.width
    /\ _height = s.height
    /\ menubar_height = s.menubar_height
    /\ _column_max_width = s.column_max_width
    /\ _column_widths = s.column_widths
    /\ _column_posx = s.column_posx
    /\ _force_fit_text = s.force_fit_text
    /\ _mainloop_loop = s.mainloop_loop
    /\ mainloop = s.mainloop
    /\ _joy_event = s.joy_event
    /\ timer = s.timer
    /\ queued = s.queued
    /\ resting = s.resting
    /\ batch = s.batch
    /\ prior = s.prior
    /\ _input_string = s.input_string
    /\ scroll = <<>>
    /\ err = "none"
    /\ data = <<>>
    /\ offered = <<>>
    /\ net = 0
    /\ op = [name |-> "init", popped |-> 0, from |-> Root]
    /\ opened = {}

\* Navigation and selection over menus built with onclose=DISABLE_CLOSE.
Init == Start(Built("DISABLE_CLOSE"))

Next ==
    \/ Add
    \/ Open
    \/ Select
    \/ Reset
    \/ FullReset
    \/ Clear
    \/ Back

Spec == Init /\ [][Next]_vars

\* Navigation and selection without clear().
NextNav ==
    \/ Add
    \/ Open
    \/ Select
    \/ Reset
    \/ FullReset
    \/ Back

SpecNav == Init /\ [][NextNav]_vars

\* Closing and re-enabling: a tree built as
\*   root.add_button(-> A); A.add_label(); A.add_button(-> B);
\*   A.add_button(-> root); B.add_label()
\* with one of the onclose values.
BuiltTree(onclose) ==
    LET s0 == Built(onclose)
        s1 == add_widget(s0, Root, Widget(TRUE, "A"))
        s2 == add_widget(s1, "A", Widget(FALSE, NoMenu))
        s3 == add_widget(s2, "A", Widget(TRUE, "B"))
        s4 == add_widget(s3, "A", Widget(TRUE, Root))
    IN  add_widget(s4, "B", Widget(FALSE, NoMenu))

InitClose == \E v \in OncloseValues : Start(BuiltTree(v))

NextClose ==
    \/ Open
    \/ Select
    \/ Reset
    \/ FullReset
    \/ Back
    \/ Enable
    \/ Disable
    \/ Draw

SpecClose == InitClose /\ [][NextClose]_vars

\* Selection in one menu of several columns: the root built with
\* columns=c, rows=r, given buttons (selectable) and labels one by one.
GridColumns == {2, 3}

BuiltGrid(c, r) ==
    [Built("DISABLE_CLOSE") EXCEPT !.columns[Root] = c, !.rows[Root] = r]

InitGrid == \E c \in GridColumns : \E r \in 1..MaxRows : Start(BuiltGrid(c, r))

GridAdd ==
    \E selectable \in BOOLEAN :
        /\ Len(_widgets[Root]) < MaxGrid
        /\ Commit(add_widget(State, Root, Widget(selectable, NoMenu)), "add",
                  NoMenu)

GridClear ==
    \E self \in {Root} : Commit(clear(State, self), "clear", NoMenu)

NextGrid ==
    \/ GridAdd
    \/ Select
    \/ Left
    \/ Right
    \/ GridClear

SpecGrid == InitGrid /\ [][NextGrid]_vars

\* Widget IDs and input data: buttons (to a sub-menu), text inputs and
\* labels added with explicit IDs to the menus of the tree
\* root -> A -> B, root -> B.
Ids == {"a", "a+2"}

IdLinkTargets(m) ==
    CASE m = "Root" -> {"A", "B"}
      [] m = "A" -> {"B"}
      [] OTHER -> {}

IdRoom(n) == SumLen(_widgets, Menus) + n <= MaxIdWidgets

AddButtonOf(self, id, menu) ==
    /\ menu \in IdLinkTargets(_current[self])
    /\ IdRoom(1)
    /\ SumLen(_submenus, Menus) < MaxIdWidgets
    /\ Commit(add_widget(State, self, WidgetId(id, TRUE, menu, NoValue)),
              "add", NoMenu)

\* A text input whose value is the name of the menu it was added to.
AddTextInputOf(self, id) ==
    /\ IdRoom(1)
    /\ Commit(add_widget(State, self, WidgetId(id, TRUE, NoMenu, _current[self])),
              "add", NoMenu)

AddLabelOf(self, id, lines) ==
    /\ IdRoom(lines)
    /\ Commit(add_label(State, self, id, lines), "add", NoMenu)

AddButton == \E self \in Menus : \E id \in Ids : \E menu \in Menus :
                 AddButtonOf(self, id, menu)

AddTextInput == \E self \in Menus : \E id \in Ids : AddTextInputOf(self, id)

AddLabel == \E self \in {Root} : \E id \in {"a"} : \E lines \in 1..MaxLines :
                AddLabelOf(self, id, lines)

GetInputDataOf(self, recursive) ==
    /\ self \in Menus
    /\ LET r == get_input_data(State, self, recursive)
       IN  Commit([State EXCEPT !.err = r.err, !.data = r.data],
                  "get_input_data", NoMenu)

GetInputData == \E self \in Menus : \E recursive \in BOOLEAN :
                    GetInputDataOf(self, recursive)

NextIds ==
    \/ AddButton
    \/ AddTextInput
    \/ AddLabel
    \/ GetInputData

SpecIds == Init /\ [][NextIds]_vars

\* The main loop: update() of the root with batches of events, on the
\* tree of SpecClose.
EventKinds ==
    {Event(t, 0) : t \in {"KEY_MOVE_DOWN", "KEY_MOVE_UP", "KEY_LEFT",
                          "KEY_RIGHT", "KEY_BACK", "KEY_CLOSE_MENU",
                          "KEY_APPLY", "JOY_UP", "JOY_DOWN", "JOY_LEFT",
                          "JOY_RIGHT", "BAR_BACK", "SCROLL"}}
        \cup {Event(t, at) : t \in {"MOUSEBUTTONDOWN", "MOUSEBUTTONUP"},
                              at \in 0..2}

RECURSIVE Batches(_)
Batches(n) ==
    IF n = 0 THEN {<<>>}
    ELSE Batches(n - 1)
             \cup {Append(b, e) : b \in Batches(n - 1), e \in EventKinds}

UpdateWith(events) ==
    /\ Len(_prev[Root]) < MaxDepth
    /\ Commit(update(State, Root, events), "update", NoMenu)

Update == \E events \in Batches(MaxEvents) : UpdateWith(events)

NextUpdate ==
    \/ Update
    \/ Enable

SpecUpdate == InitClose /\ [][NextUpdate]_vars

\* The joystick: update() of the root with one event per tick, on a tree
\* built as
\*   root = Menu(columns=rc, rows=...); A = Menu(columns=ac, rows=...);
\*   root.add_button(-> A); root.add_button(); root.add_button();
\*   A.add_button(); A.add_button(); A.add_button()
\* A menu of two columns has two rows.
PadColumns == {1, 2}

BuiltPad(rc, ac) ==
    LET s0 == [Built("CLOSE") EXCEPT
                  !.columns[Root] = rc,
                  !.rows[Root] = IF rc > 1 THEN 2 ELSE BigRows,
                  !.columns["A"] = ac,
                  !.rows["A"] = IF ac > 1 THEN 2 ELSE BigRows]
        s1 == add_widget(s0, Root, Widget(TRUE, "A"))
        s2 == add_widget(s1, Root, Widget(TRUE, NoMenu))
        s3 == add_widget(s2, Root, Widget(TRUE, NoMenu))
        s4 == add_widget(s3, "A", Widget(TRUE, NoMenu))
        s5 == add_widget(s4, "A", Widget(TRUE, NoMenu))
    IN  add_widget(s5, "A", Widget(TRUE, NoMenu))

InitPad == \E rc \in PadColumns : \E ac \in PadColumns : Start(BuiltPad(rc, ac))

PadEvents ==
    {Event(t, 0) : t \in {"KEY_LEFT", "KEY_RIGHT", "KEY_BACK", "KEY_APPLY",
                          "JOY_LEFT", "JOY_RIGHT", "REPEAT"}}
        \cup {Event(t, at) : t \in {"JOY_AXIS_X", "JOY_AXIS_Y"}, at \in -1..1}

\* One tick of the main loop with one event. A repeat event is in the queue
\* only if the timer has been armed since the batch before was taken.
TickWith(event) ==
    /\ event.type = "REPEAT" => queued
    /\ Commit([update(State, Root, <<event>>) EXCEPT !.batch = <<event>>],
              "update", NoMenu)

Tick == \E event \in PadEvents : TickWith(event)

\* The application goes back one level between two ticks: reset(1).
PadBack ==
    /\ _prev[Root] # <<>>
    /\ Commit(reset(State, Root, 1), "reset", NoMenu)

NextPad ==
    \/ Tick
    \/ PadBack

SpecPad == InitPad /\ [][NextPad]_vars

\* The close lock: update() of the root with one event per tick, enable()
\* and disable(), on the tree of SpecClose.
LockEvents ==
    {Event(t, 0) : t \in {"KEY_CLOSE_MENU", "KEY_APPLY", "KEY_BACK"}}
        \cup {Event("JOY_AXIS_Y", at) : at \in 0..1}

\* What the last operation did to the navigation, as far as the variables
\* show it: an update() went back, its selected button opened a sub-menu, or
\* neither.
Transition ==
    IF op.name # "update" THEN op.name
    ELSE IF op.popped > 0 THEN "reset"
    ELSE IF \E k \in 1..Len(offered) :
                offered[k].to = "widget" /\ offered[k].consumed
         THEN "open"
    ELSE "none"

LockTickWith(event) ==
    /\ Len(_prev[Root]) < MaxDepth
    /\ Commit([update(State, Root, <<event>>) EXCEPT
                  !.batch = <<event>>, !.prior = Transition],
              "update", NoMenu)

LockTick == \E event \in LockEvents : LockTickWith(event)

\* enable() of a disabled tree.
Reenable ==
    \E self \in Menus :
        /\ InTree(self)
        /\ ~is_enabled(State, self)
        /\ Commit(enable(State, self), "enable", NoMenu)

NextLock ==
    \/ LockTick
    \/ Reenable
    \/ Disable

SpecLock == InitClose /\ [][NextLock]_vars

\* The colour input: get_value() and is_valid() of an RGB ColorInput whose
\* input string is any string of valid characters of up to MaxChars
\* characters.
ColorChars == {"2", "5", "6", _separator}

RECURSIVE Strings(_)
Strings(n) ==
    IF n = 0 THEN {<<>>}
    ELSE Strings(n - 1)
             \cup {Append(s, ch) : s \in Strings(n - 1), ch \in ColorChars}

InitColor ==
    \E s \in Strings(MaxChars) :
        Start([Built("DISABLE_CLOSE") EXCEPT !.input_string = s])

GetValue ==
    /\ Len(_input_string) <= MaxChars
    /\ Commit([State EXCEPT !.data = [value |-> get_value(_input_string)]],
              "get_value", NoMenu)

IsValid ==
    /\ Len(_input_string) <= MaxChars
    /\ Commit([State EXCEPT !.data = [valid |-> is_valid(_input_string)]],
              "is_valid", NoMenu)

NextColor ==
    \/ GetValue
    \/ IsValid

SpecColor == InitColor /\ [][NextColor]_vars

\* Moving the selection: update() of one single-column menu holding any
\* row of up to MaxCells buttons and labels, with one event per tick.
RECURSIVE Rows(_)
Rows(n) ==
    IF n = 0 THEN {<<>>}
    ELSE Rows(n - 1)
             \cup {Append(r, selectable) : r \in Rows(n - 1),
                                           selectable \in BOOLEAN}

\* The root after add_button / add_label for each widget of the row.
RECURSIVE BuiltRow(_)
BuiltRow(row) ==
    IF row = <<>> THEN Built("DISABLE_CLOSE")
    ELSE add_widget(BuiltRow(Front(row)), Root, Widget(Last(row), NoMenu))

InitMove == \E row \in Rows(MaxCells) : Start(BuiltRow(row))

MoveEvents ==
    {Event(t, 0) : t \in {"KEY_MOVE_DOWN", "KEY_MOVE_UP", "KEY_LEFT",
                          "KEY_BACK", "KEY_CLOSE_MENU", "JOY_UP", "JOY_DOWN",
                          "REPEAT"}}
        \cup {Event("JOY_AXIS_Y", at) : at \in -1..1}
        \cup {Event(t, at) : t \in {"MOUSEBUTTONDOWN", "MOUSEBUTTONUP"},
                              at \in 0..(MaxCells - 1)}

MoveTick ==
    \E event \in MoveEvents :
        /\ event.type = "REPEAT" => queued
        /\ event.type \in {"MOUSEBUTTONDOWN", "MOUSEBUTTONUP"} =>
               event.at < Len(_widgets[Root]) \/ event.at = 0
        /\ Commit([update(State, Root, <<event>>) EXCEPT !.batch = <<event>>],
                  "update", NoMenu)

NextMove == MoveTick

SpecMove == InitMove /\ [][NextMove]_vars

\* The hex colour input: set_value() with a text of up to MaxText
\* characters out of a hex digit, '#', a character that is not valid and a
\* blank, and get_value(). The application's text is drawn at the start; the
\* input holds "#" (as after clear()) or a colour.
TextChars == {"a", "#", "z", " "}

RECURSIVE Texts(_)
Texts(n) ==
    IF n = 0 THEN {<<>>}
    ELSE Texts(n - 1)
             \cup {Append(s, ch) : s \in Texts(n - 1), ch \in TextChars}

InitHex ==
    \E color \in Texts(MaxText) :
        \E held \in {<<"#">>, <<"#", "a", "a", "a", "a", "a", "a">>} :
            Start([Built("DISABLE_CLOSE") EXCEPT !.input_string = held,
                                                 !.batch = color])

SetValue ==
    /\ Len(batch) <= MaxText
    /\ Commit([set_value_hex(State, batch) EXCEPT !.batch = batch],
              "set_value", NoMenu)

GetValueHex ==
    LET r == get_value_hex(_input_string)
    IN  /\ Len(_input_string) = 1 \/ Len(_input_string) = 7
        /\ Commit([State EXCEPT !.err = r.err, !.data = [value |-> r.value]],
                  "get_value", NoMenu)

NextHex ==
    \/ SetValue
    \/ GetValueHex

SpecHex == InitHex /\ [][NextHex]_vars

\* The main loop: mainloop() of the root on the tree of SpecClose, whose
\* menus are built with mainloop_loop True or False; one event at most
\* arrives per tick, and the background function or another thread of the
\* application may disable the tree between two ticks.
MaxTicks == 3

LoopOnclose == {"CLOSE", "DISABLE_CLOSE", "BACK"}

BuiltLoop(onclose, looping) ==
    [BuiltTree(onclose) EXCEPT !.mainloop_loop = looping]

InitLoop ==
    \E onclose \in LoopOnclose : \E looping \in [Menus -> BOOLEAN] :
        /\ looping["B"]
        /\ Start(BuiltLoop(onclose, looping))

LoopBatches ==
    {<<>>} \cup {<<Event(t, 0)>> : t \in {"KEY_APPLY", "KEY_BACK",
                                           "KEY_CLOSE_MENU", "KEY_MOVE_UP"}}

Mainloop ==
    \E event_loop \in {<<>>, <<Event("KEY_APPLY", 0)>>} :
        \E disable_loop \in BOOLEAN :
            /\ mainloop.pc = "out"
            /\ Commit(mainloop_enter(State, Root, event_loop, disable_loop),
                      "mainloop", NoMenu)

LoopTick ==
    \E queue \in LoopBatches :
        /\ mainloop.pc = "in"
        /\ mainloop.ticks < MaxTicks
        /\ Len(_prev[Root]) < MaxDepth
        /\ Commit(mainloop_tick(State, Root, queue), "tick", NoMenu)

NextLoop ==
    \/ Mainloop
    \/ LoopTick
    \/ Reenable
    \/ Disable

SpecLoop == InitLoop /\ [][NextLoop]_vars

\* The layout: one menu built as
\*   Menu(menu_height=h, menu_width=w, columns=c, rows=r,
\*        column_max_width=mw, column_force_fit_text=fit)
\* given buttons of one of two text widths one by one, and drawn. rows=None
\* is the single-column menu without a rows argument.
LayoutWidths == {200}
LayoutHeights == {100, 150}
WidgetWidths == {60, 300}

LayoutRows(c) == IF c = 1 THEN {BigRows, 2} ELSE {1, 2}

LayoutMaxWidths(c) ==
    IF c = 1 THEN {<<NoWidth>>, <<120>>}
    ELSE {<<NoWidth, NoWidth>>, <<120, NoWidth>>, <<NoWidth, 120>>,
          <<120, 150>>}

BuiltLayout(w, h, c, r, mw, fit) ==
    [Built("DISABLE_CLOSE") EXCEPT
        !.width[Root] = w, !.height[Root] = h,
        !.columns[Root] = c, !.rows[Root] = r,
        !.column_max_width[Root] = mw, !.force_fit_text[Root] = fit]

InitLayout ==
    \E w \in LayoutWidths : \E h \in LayoutHeights : \E c \in PadColumns :
        \E r \in LayoutRows(c) : \E mw \in LayoutMaxWidths(c) :
            \E fit \in BOOLEAN : Start(BuiltLayout(w, h, c, r, mw, fit))

LayoutAdd ==
    \E width \in WidgetWidths :
        /\ Len(_widgets[Root]) < MaxCells
        /\ Commit(add_widget(State, Root, Sized(Widget(TRUE, NoMenu), width)),
                  "add", NoMenu)

NextLayout ==
    \/ LayoutAdd
    \/ Draw

SpecLayout == InitLayout /\ [][NextLayout]_vars

\* =================================================================== claims
Min(a, b) == IF a < b THEN a ELSE b

\* The history depth of the tree, as _get_depth walks it.
Depth == _get_depth(State, Root)

Range(f) == {f[i] : i \in 1..Len(f)}

HasSelectable(ws) == \E i \in 1..Len(ws) : ws[i].selectable

\* 0-based index of the first selectable widget of a list that has one.
FirstSelectable(ws) ==
    CHOOSE i \in 0..(Len(ws) - 1) :
        /\ ws[i + 1].selectable
        /\ \A j \in 0..(i - 1) : ~ws[j + 1].selectable

\* C1: after full_reset() the root is the current menu and the history
\* depth is 0, whatever chain of sub-menus was open.
C1_FullResetRestoresRoot ==
    op.name = "full_reset" =>
        /\ Current = Root
        /\ _current[Root] = Root
        /\ Depth = 0

\* C1 witness: full_reset() called with B current at depth 2 (root -> A -> B).
C1_Witness ==
    /\ op.name = "full_reset"
    /\ op.from = "B"
    /\ op.popped = 2
    /\ Current = Root
    /\ Depth = 0

\* C2: reset(n), n >= 1, at depth d pops exactly min(n, d) levels: the depth
\* becomes d - min(n, d), the current menu is the one recorded by the oldest
\* of the popped opens, and at d = 0 current menu and history are unchanged.
C2_ResetPopsMin ==
    [][\A self \in Menus : \A total \in 1..MaxTotal :
          (op'.name = "reset" /\ ResetBy(self, total)) =>
              LET d == Len(_prev[Root])
                  k == Min(total, d)
              IN  /\ Len(_prev'[Root]) = d - k
                  /\ _prev'[Root] = SubSeq(_prev[Root], 1, d - k)
                  /\ k > 0 => _current'[_top'[Root]] = _prev[Root][d - k + 1]
                  /\ d = 0 => UNCHANGED <<_current, _prev>>]_vars

\* C2 witness: a reset called with B current that popped both levels.
C2_Witness ==
    /\ op.name = "reset"
    /\ err = "none"
    /\ op.from = "B"
    /\ op.popped = 2
    /\ Current = Root

\* C3: open(child) on the current menu pushes that menu onto the history
\* and makes child the current menu, for every child (the root included).
C3_OpenMakesChildCurrent ==
    [][\A i \in 1..MaxWidgets :
          (op'.name = "open" /\ OpenAt(i)) =>
              /\ _prev'[Root] = Append(_prev[Root], Current)
              /\ _current'[_top'[Root]] = _widgets[Current][i].action]_vars

\* C4: after open(child), a child with a selectable widget has its first
\* selectable widget selected.
C4_OpenSelectsFirst ==
    [][\A i \in 1..MaxWidgets :
          (op'.name = "open" /\ OpenAt(i)) =>
              LET child == _widgets[Current][i].action
              IN  HasSelectable(_widgets'[child]) =>
                      _index'[child] = FirstSelectable(_widgets'[child])]_vars

\* No menu occurs twice on the navigation chain (history plus current).
NoReopen ==
    /\ Current \notin Range(_prev[Root])
    /\ \A i, j \in 1..Len(_prev[Root]) : i # j => _prev[Root][i] # _prev[Root][j]

\* C5: the depth walked by _get_depth is the number of opens minus the
\* levels popped, it is never negative, and while no ancestor is re-opened
\* it is 0 exactly when the root is current.
C5_DepthCountsOpens ==
    /\ Depth = net
    /\ Depth >= 0
    /\ NoReopen => (Depth = 0 <=> Current = Root)

\* C5 witness: one level popped, one level of history left.
C5_Witness ==
    /\ op.popped = 1
    /\ Depth = 1
    /\ Current = "A"

\* C6: reset(total) with total <= 0 fails its assertion and changes nothing.
C6_ResetRejectsNonPositive ==
    [][\A self \in Menus : \A total \in -1..0 :
          (op'.name = "reset" /\ ResetBy(self, total)) =>
              /\ err' = "AssertionError"
              /\ UNCHANGED <<_current, _prev, _top, _index, _enabled, _widgets,
                             _widget_selected, _submenus, _closelocked>>]_vars

\* C6 witness: a rejected reset while a sub-menu is open.
C6_Witness ==
    /\ op.name = "reset"
    /\ err = "AssertionError"
    /\ Depth = 2

\* C7: back() with history goes back one level and does not touch the
\* enabled flag; without history it closes: onclose CLOSE disables the tree
\* and keeps current menu and depth, onclose None or DISABLE_CLOSE changes
\* nothing.
C7_BackOrClose ==
    [][(op'.name = "back" /\ Back) =>
          IF _prev[Root] # <<>>
          THEN /\ _prev'[Root] = Front(_prev[Root])
               /\ _current'[_top'[Root]] = Last(_prev[Root])
               /\ UNCHANGED _enabled
          ELSE /\ _onclose[Current] = "CLOSE" =>
                      /\ ~_enabled'[Root]
                      /\ UNCHANGED <<_current, _prev>>
               /\ _onclose[Current] \in {"NONE", "DISABLE_CLOSE"} =>
                      UNCHANGED <<_enabled, _current, _prev>>]_vars

\* C7 witness: back() at the root closed an enabled tree.
C7_Witness ==
    /\ op.name = "back"
    /\ op.from = Root
    /\ _onclose[Root] = "CLOSE"
    /\ ~_enabled[Root]
    /\ Depth = 0

\* C8: a reset that pops a level issues a scroll request for the selected
\* widget of the restored menu.
C8_ResetScrollsRestored ==
    (op.name = "reset" /\ op.popped >= 1 /\ err = "none"
        /\ HasSelectable(_widgets[Current])) =>
        \E r \in Range(scroll) : r.menu = Current /\ r.index = _index[Current]

\* The menus reachable from the root through sub-menu buttons.
RECURSIVE Linked(_, _)
Linked(S, n) ==
    IF n = 0 THEN S
    ELSE Linked(S \cup UNION {Range(_submenus[m]) : m \in S}, n - 1)

\* C9 as stated: every menu linked to the root has the root as top.
C9_TopSharedByLinked ==
    \A m \in Linked({Root}, Cardinality(Menus)) : _top[m] = Root

\* C9 amended: the root and every menu that has been opened have the root
\* as top; a menu not opened yet is its own top.
C9_TopSharedByOpened ==
    \A m \in Menus :
        _top[m] = IF m = Root \/ m \in opened THEN Root ELSE m

\* C9 witness: A was opened, B is linked from A and was not.
C9_Witness ==
    /\ op.name = "open"
    /\ "A" \in opened
    /\ "B" \notin opened
    /\ "B" \in Range(_submenus["A"])
    /\ _top["A"] = Root
    /\ _top["B"] = "B"

\* C10: every menu holding a selectable widget has a selected index that is
\* in range and points at a selectable widget.
C10_IndexOnSelectable ==
    \A m \in Menus :
        HasSelectable(_widgets[m]) =>
            /\ _index[m] < Len(_widgets[m])
            /\ _widgets[m][_index[m] + 1].selectable

\* The 0-based indexes of the selectable widgets of a list.
SelectableIndexes(ws) == {i \in 0..(Len(ws) - 1) : ws[i + 1].selectable}

\* The state after k move_down steps, each _select(index + 1) on the
\* current menu, and the indexes selected after each step.
RECURSIVE MoveDown(_, _, _)
MoveDown(st, visited, k) ==
    IF k = 0 THEN [st |-> st, visited |-> visited]
    ELSE LET c == st.current[st.top[Root]]
             s1 == _select(st, c, st.index[c] + 1)
         IN  MoveDown(s1, Append(visited, s1.index[c]), k - 1)

\* C11: in a menu with N >= 1 selectable widgets, N move_down steps bring
\* the selected index back to where it was, having selected every
\* selectable widget exactly once.
C11_MoveDownCycles ==
    LET ws == _widgets[Current]
        N == Cardinality(SelectableIndexes(ws))
        run == MoveDown(State, <<>>, N)
    IN  N >= 1 =>
            /\ run.st.err = "none"
            /\ run.st.index[Current] = _index[Current]
            /\ Range(run.visited) = SelectableIndexes(ws)

\* 0-based index of the nearest selectable widget at or after i, wrapping.
NextSelectable(ws, i) ==
    LET n == Len(ws)
        k == CHOOSE d \in 0..(n - 1) :
                 /\ ws[((i + d) % n) + 1].selectable
                 /\ \A e \in 0..(d - 1) : ~ws[((i + e) % n) + 1].selectable
    IN  (i + k) % n

\* C12: select(i) on a non-selectable widget ends on the nearest selectable
\* widget at or after i (wrapping); with no selectable widget it returns
\* without error and without changing the selected index.
C12_SelectSkipsUnselectable ==
    [][\A i \in -1..MaxIndex :
          (op'.name = "select" /\ SelectAt(i)) =>
              LET ws == _widgets[Current]
                  n == Len(ws)
              IN  (n > 0 /\ ~ws[(i % n) + 1].selectable) =>
                      /\ err' = "none"
                      /\ IF HasSelectable(ws)
                         THEN _index'[Current] = NextSelectable(ws, i % n)
                         ELSE UNCHANGED <<_index, _widgets>>]_vars

\* C13: with every widget selectable, move_right from index i selects
\* i + R when i + R < count and count - 1 otherwise; move_left selects
\* i - R when i >= R and 0 otherwise.
C13_ColumnStride ==
    [][LET ws == _widgets[Current]
           count == Len(ws)
           i == _index[Current]
           R == _rows[Current]
       IN  (count >= 1 /\ \A k \in 1..count : ws[k].selectable) =>
               /\ (op'.name = "right" /\ Right) =>
                      /\ err' = "none"
                      /\ _index'[Current] =
                             IF i + R < count THEN i + R ELSE count - 1
               /\ (op'.name = "left" /\ Left) =>
                      /\ err' = "none"
                      /\ _index'[Current] = IF i >= R THEN i - R ELSE 0]_vars

\* C14: move_right never ends on a smaller selected index, move_left never
\* on a larger one, whatever mix of buttons and labels the menu holds.
C14_LeftRightNeverWrap ==
    [][/\ (op'.name = "right" /\ Right) =>
              _index'[Current] >= _index[Current]
       /\ (op'.name = "left" /\ Left) =>
              _index'[Current] <= _index[Current]]_vars

\* C19: every select(0) on a menu whose widget 0 is selectable issues a
\* scroll request with y = 0, also when index 0 was selected already.
C19_SelectZeroScrollsTop ==
    [][(op'.name = "select" /\ SelectAt(0)) =>
          LET ws == _widgets[Current]
          IN  (Len(ws) > 0 /\ ws[1].selectable) =>
                  \E r \in Range(scroll') : r.menu = Current /\ r.top]_vars

\* The explicit IDs of the widgets of a list.
ExplicitIds(ws) == {ws[i].id : i \in 1..Len(ws)} \ {AutoId}

\* C15: adding a widget whose explicit ID is the ID of a widget of the same
\* menu fails with ValueError and leaves the widget list and the selected
\* index as they were; an ID not used in that menu (used in another menu or
\* not) is accepted and the widget appended.
C15_DuplicateIdRejected ==
    [][\A self \in Menus : \A id \in Ids :
          LET c == _current[self]
              dup == id \in ExplicitIds(_widgets[c])
              single == \/ \E menu \in Menus : AddButtonOf(self, id, menu)
                        \/ AddTextInputOf(self, id)
                        \/ AddLabelOf(self, id, 1)
              wrapped == \E lines \in 2..MaxLines : AddLabelOf(self, id, lines)
          IN  op'.name = "add" =>
                  /\ (dup /\ (single \/ wrapped)) =>
                         /\ err' = "ValueError"
                         /\ _widgets'[c] = _widgets[c]
                         /\ _index'[c] = _index[c]
                  /\ (~dup /\ single) =>
                         /\ err' = "none"
                         /\ Len(_widgets'[c]) = Len(_widgets[c]) + 1
                         /\ Last(_widgets'[c]).id = id]_vars

\* C15 witness: an add to the root was rejected for its ID, and the root
\* holds a widget with the ID of a widget of A.
C15_Witness ==
    /\ op.name = "add"
    /\ err = "ValueError"
    /\ Len(_widgets[Root]) = 1
    /\ Len(_widgets["A"]) = 1
    /\ _widgets[Root][1].id = _widgets["A"][1].id
    /\ _widgets[Root][1].id # AutoId

\* C16: an add that fails on a duplicate ID leaves every field of every
\* menu unchanged, the lists of sub-menus included.
C16_FailedAddChangesNothing ==
    [][(op'.name = "add" /\ err' = "ValueError") =>
          UNCHANGED <<_widgets, _index, _widget_selected, _submenus, _current,
                      _top, _prev, _enabled, _closelocked,
                      _widgets_surface>>]_vars

\* The menus the buttons of m open.
Children(m) ==
    {_widgets[m][i].action : i \in 1..Len(_widgets[m])} \ {NoMenu}

\* The sub-menu tree of the menus of S, as their buttons link it.
RECURSIVE Subtree(_, _)
Subtree(S, n) ==
    IF n = 0 THEN S
    ELSE Subtree(S \cup UNION {Children(m) : m \in S}, n - 1)

\* Every menu of T but c is opened by exactly one button of T.
IsTree(T, c) ==
    \A m \in T \ {c} :
        Cardinality({pi \in T \X (1..MaxIdWidgets) :
                        /\ pi[2] <= Len(_widgets[pi[1]])
                        /\ _widgets[pi[1]][pi[2]].action = m}) = 1

\* Two different menus of T hold value-bearing widgets with one ID.
SharedId(T) ==
    \E m1, m2 \in T :
        /\ m1 # m2
        /\ DOMAIN widget_data(_widgets[m1])
               \cap DOMAIN widget_data(_widgets[m2]) # {}

\* The union of the per-menu mappings of T.
TreeData(T) ==
    [k \in UNION {DOMAIN widget_data(_widgets[m]) : m \in T} |->
        LET m == CHOOSE x \in T : k \in DOMAIN widget_data(_widgets[x])
        IN  widget_data(_widgets[m])[k]]

\* C17: get_input_data(recursive=True) raises when two menus of the current
\* menu's sub-menu tree share a value ID and returns the union of the
\* per-menu mappings otherwise; with recursive=False it returns the current
\* menu's own mapping.
C17_RecursiveDataCollision ==
    [][\A self \in Menus : \A recursive \in BOOLEAN :
          (op'.name = "get_input_data" /\ GetInputDataOf(self, recursive)) =>
              LET c == _current[self]
                  T == Subtree({c}, Cardinality(Menus))
              IN  IsTree(T, c) =>
                      IF ~recursive
                      THEN err' = "none" /\ data' = widget_data(_widgets[c])
                      ELSE IF SharedId(T) THEN err' = "ValueError"
                      ELSE err' = "none" /\ data' = TreeData(T)]_vars

\* C18: draw() on a disabled tree raises RuntimeError and changes nothing:
\* no surface is rebuilt, and widgets, selection and navigation stay as
\* they are, whichever menu is current.
C18_DrawDisabledFails ==
    [][\A self \in Menus :
          (op'.name = "draw" /\ ~_enabled[Root] /\ DrawBy(self)) =>
              /\ err' = "RuntimeError"
              /\ UNCHANGED <<_widgets_surface, _widgets, _index,
                             _widget_selected, _submenus, _current, _top,
                             _prev, _enabled, _closelocked>>]_vars

\* C18 witness: a draw was refused while the sub-menu B was current and its
\* surface had never been built.
C18_Witness ==
    /\ op.name = "draw"
    /\ err = "RuntimeError"
    /\ Current = "B"
    /\ ~_enabled[Root]
    /\ ~_widgets_surface["B"]

\* C20: in an update() tick whose menu bar consumed an event, the batch is
\* offered to nothing else: not to the scroll area, the selected widget or
\* the navigation loop.
C20_MenuBarShortCircuits ==
    (op.name = "update" /\ offered # <<>> /\ offered[1].consumed) =>
        Len(offered) = 1

\* Who the last update() offered its batch to, and who consumed it.
OfferedTo(who) == \E k \in 1..Len(offered) : offered[k].to = who

Took(who) ==
    \E k \in 1..Len(offered) : offered[k].to = who /\ offered[k].consumed

\* C21: in an update() tick where neither the menu bar nor the scroll area
\* consumed the batch and the selected widget's update reported true, the
\* navigation loop does not run: selection, current menu and history are
\* exactly what the widget's own action left, the tick goes back no level,
\* disables nothing, and update() returns true.
C21_WidgetIntercepts ==
    [][(/\ op'.name = "update"
        /\ ~Took("menubar")'
        /\ ~Took("scroll")'
        /\ Took("widget")')
       => /\ err' = "none"
          /\ ~OfferedTo("nav")'
          /\ data'.break_mainloop
          /\ LET s == widget_apply(State, Current,
                                   _widgets[Current][_index[Current] + 1])
             IN  /\ _index' = s.index
                 /\ _widgets' = s.widgets
                 /\ _current' = s.current
                 /\ _prev' = s.prev
          /\ Len(_prev'[Root]) >= Len(_prev[Root])
          /\ _enabled' = _enabled
          /\ _closelocked'[Root] = _closelocked[Root]]_vars

\* C21 witness: the selected button of the root took the batch and opened
\* the sub-menu A; nothing was offered to the navigation loop.
C21_Witness ==
    /\ op.name = "update"
    /\ op.from = Root
    /\ offered = <<[to |-> "menubar", consumed |-> FALSE],
                   [to |-> "scroll", consumed |-> FALSE],
                   [to |-> "widget", consumed |-> TRUE]>>
    /\ Current = "A"
    /\ Len(_prev[Root]) = 1
    /\ data = [break_mainloop |-> TRUE]

\* C22: in the first update() tick after enable() re-enabled a disabled
\* tree, a close key-press in the batch does not disable the tree, whichever
\* menu is current.
C22_EnableLocksClose ==
    [][(/\ op.name = "enable"
        /\ op'.name = "update"
        /\ HasEvent(batch', "KEY_CLOSE_MENU"))
       => _enabled'[Root]]_vars

\* C23: whenever update() returns, no menu of the tree has its close lock
\* set.
C23_LockClearedEveryTick ==
    (op.name = "update" /\ err = "none") =>
        \A m \in Menus : InTree(m) => ~_closelocked[m]

\* C24: update() of a disabled tree dispatches nothing: selected indexes,
\* current menu, history and joystick state are unchanged by the tick.
C24_DisabledDispatchesNothing ==
    [][(~_enabled[Root] /\ op'.name = "update")
       => /\ _index' = _index
          /\ _current' = _current
          /\ _prev' = _prev
          /\ _joy_event' = _joy_event]_vars

\* C25: clear() called on the root, at any depth, leaves depth 0 with the
\* root current and the root's widget and sub-menu lists empty, and removes
\* no widget of any other menu.
C25_ClearRootEmptiesRoot ==
    [][(/\ op'.name = "clear"
        /\ LET s == clear(State, Root)
           IN  /\ _widgets' = s.widgets
               /\ _submenus' = s.submenus
               /\ _index' = s.index
               /\ _current' = s.current
               /\ _prev' = s.prev
               /\ err' = s.err)
       => /\ err' = "none"
          /\ Depth' = 0
          /\ Current' = Root
          /\ _widgets'[Root] = <<>>
          /\ _submenus'[Root] = <<>>
          /\ \A m \in Menus \ {Root} :
                 Len(_widgets'[m]) = Len(_widgets[m])]_vars

\* The decimal value of a string of digits, digit by digit.
Decimal(s) ==
    LET RECURSIVE Sum(_)
        Sum(k) == IF k > Len(s) THEN 0
                  ELSE DigitValue(s[k]) * 10 ^ (Len(s) - k) + Sum(k + 1)
    IN  Sum(1)

\* The three channels of a string made of exactly three non-empty runs of
\* digits with one separator between them; <<>> for any other string.
Channels(s) ==
    LET seps == {k \in 1..Len(s) : s[k] = _separator}
    IN  IF /\ Cardinality(seps) = 2
           /\ \A k \in 1..Len(s) : k \notin seps => s[k] \in Digits
        THEN LET i == CHOOSE k \in seps : \A j \in seps : k <= j
                 j == CHOOSE k \in seps : k # i
             IN  IF i > 1 /\ j > i + 1 /\ j < Len(s)
                 THEN <<Decimal(SubSeq(s, 1, i - 1)),
                        Decimal(SubSeq(s, i + 1, j - 1)),
                        Decimal(SubSeq(s, j + 1, Len(s)))>>
                 ELSE <<>>
        ELSE <<>>

\* C26: get_value() of an RGB colour input returns (r, g, b) only when the
\* input string is three non-empty decimal channels with each of r, g and b
\* in 0..255, and (-1, -1, -1) for every other string; is_valid() is true
\* exactly when get_value() is not (-1, -1, -1).
C26_GetValueChecksChannels ==
    /\ op.name = "get_value" =>
           LET c == Channels(_input_string)
           IN  data.value =
                   IF c # <<>> /\ \A k \in 1..3 : 0 <= c[k] /\ c[k] <= 255
                   THEN c
                   ELSE <<-1, -1, -1>>
    /\ op.name = "is_valid" =>
           data.valid = (get_value(_input_string) # <<-1, -1, -1>>)

\* C27 as claimed: in the update() tick that follows a tick in which a
\* sub-menu was opened or a reset/back was performed, a close key-press does
\* not disable the tree.
C27_OpenResetLockClose ==
    [][(/\ Transition \in {"open", "reset"}
        /\ _enabled[Root]
        /\ op'.name = "update"
        /\ HasEvent(batch', "KEY_CLOSE_MENU"))
       => _enabled'[Root]]_vars

\* C27: opening and going back set no close lock. When a tick opened a
\* sub-menu or went back, the close lock of the current menu is clear at its
\* end, and a close key-press in the next tick is honoured: it disables the
\* tree unless onclose is NONE or DISABLE_CLOSE.
C27_OpenResetLeaveCloseFree ==
    [][(/\ Transition \in {"open", "reset"}
        /\ op.name = "update"
        /\ op'.name = "update"
        /\ HasEvent(batch', "KEY_CLOSE_MENU"))
       => /\ ~_closelocked[Current]
          /\ _onclose[Current] \in {"CLOSE", "RESET", "BACK"}
                 => ~_enabled'[Root]]_vars

\* C27 witness: the tick after the one that opened A from the root took a
\* close key-press and disabled the tree.
C27_Witness ==
    /\ op.name = "update"
    /\ prior = "open"
    /\ op.from = "A"
    /\ batch = <<Event("KEY_CLOSE_MENU", 0)>>
    /\ _onclose["A"] = "CLOSE"
    /\ ~_enabled[Root]

\* The events that ask for a move to the left or to the right, one per
\* input source: keyboard, joystick hat, joystick X axis.
LeftEvents ==
    {Event("KEY_LEFT", 0), Event("JOY_LEFT", 0), Event("JOY_AXIS_X", -1)}

RightEvents ==
    {Event("KEY_RIGHT", 0), Event("JOY_RIGHT", 0), Event("JOY_AXIS_X", 1)}

\* C28: update() of the root honours a left/right request of any input source
\* iff the current menu has more than one column: with one column the
\* selection stays and no X direction is held, with several the selection
\* moves left (right) unless it is on the first (last) widget and an X-axis
\* request is held, whatever the root's column count.
C28_ColumnsOfCurrent ==
    [][LET c == Current
           i == _index[c]
           n == Len(_widgets[c])
           multi == _columns[c] > 1
           left == \E e \in LeftEvents : batch' = <<e>>
           right == \E e \in RightEvents : batch' = <<e>>
           axis == \E at \in {-1, 1} : batch' = <<Event("JOY_AXIS_X", at)>>
       IN  (op'.name = "update" /\ (left \/ right))
           => /\ ~multi => _index'[c] = i
              /\ (~multi /\ axis) => _joy_event'[c] = 0
              /\ (multi /\ left /\ i > 0) => _index'[c] < i
              /\ (multi /\ right /\ i < n - 1) => _index'[c] > i
              /\ (multi /\ axis) => _joy_event'[c] # 0]_vars

\* C29: in a menu of several columns a joystick hat left (right) moves the
\* selection by one column stride of rows widgets, clamped to 0 (count - 1),
\* as the keyboard left (right) key does.
C29_HatMovesByStride ==
    [][LET c == Current
           i == _index[c]
           n == Len(_widgets[c])
           rows == _rows[c]
       IN  (op'.name = "update" /\ _columns[c] > 1)
           => /\ batch' = <<Event("JOY_LEFT", 0)>> =>
                     /\ _index'[c] = IF i >= rows THEN i - rows ELSE 0
                     /\ _index'[c] =
                            update(State, Root, <<Event("KEY_LEFT", 0)>>).index[c]
              /\ batch' = <<Event("JOY_RIGHT", 0)>> =>
                     /\ _index'[c] = IF i + rows < n THEN i + rows ELSE n - 1
                     /\ _index'[c] =
                            update(State, Root, <<Event("KEY_RIGHT", 0)>>).index[c]]_vars

\* C30: after an axis event the repeat timer is armed with JOY_DELAY if the
\* resulting bitmask is non-zero and differs from the previous one, with
\* JOY_REPEAT if it is non-zero and equal, and cleared if it is zero; a
\* repeat event re-arms JOY_REPEAT and moves the selection only while the
\* bitmask is non-zero; and once an axis event inside the deadzone has been
\* processed, no repeat event moves the selection until an axis event beyond
\* the deadzone.
C30_AxisRepeat ==
    [][LET c == Current
           axis == \E e \in PadEvents :
                       e.type \in {"JOY_AXIS_X", "JOY_AXIS_Y"} /\ batch' = <<e>>
           repeat == batch' = <<Event("REPEAT", 0)>>
       IN  op'.name = "update"
           => /\ axis =>
                     timer' = IF _joy_event'[c] = 0 THEN "off"
                              ELSE IF _joy_event'[c] = _joy_event[c]
                                   THEN "JOY_REPEAT"
                              ELSE "JOY_DELAY"
              /\ (repeat /\ _joy_event[c] # 0) => timer' = "JOY_REPEAT"
              /\ (repeat /\ _joy_event[c] = 0) =>
                     timer' = "off" /\ _index' = _index
              /\ (repeat /\ resting) => _index' = _index]_vars

\* The columns of a menu that have no configured max width (1-based).
FreeColumns(m) ==
    {i \in 1..Len(_column_max_width[m]) : _column_max_width[m][i] = NoWidth}

\* C31: after a draw() that rebuilt the layout of the current menu, the
\* width of every column without a max width is at least the width plus the
\* horizontal selection margin of every widget the layout puts in that
\* column.
C31_ColumnWidthsFollowWidgets ==
    [][(op'.name = "draw" /\ err' = "none" /\ ~_widgets_surface[Current]) =>
          \A i \in FreeColumns(Current) :
              \A k \in InColumn(State, Current, i - 1) :
                  _column_widths'[Current][i] >=
                      _widgets'[Current][k].width
                          + _selection_highlight_margin_x]_vars

\* The bottom-right corner of the bounding box of a menu's widgets.
BoundingBox(m) == _get_widget_max_position(State, m)

\* C32: after a draw() that built the surface of the current menu, a
\* bounding box lower than the viewport (max_y > height - menu bar height)
\* has a surface at least max_y high, and a bounding box wider than the menu
\* (max_x > width) has a surface at least max_x wide.
C32_SurfaceCoversContent ==
    [][(op'.name = "draw" /\ err' = "none" /\ ~_widgets_surface[Current]) =>
          LET max_x == BoundingBox(Current)'[1]
              max_y == BoundingBox(Current)'[2]
              size == surface_size'[Current]
          IN  /\ max_y > _height[Current] - menubar_height[Current] =>
                     size[2] >= max_y
              /\ max_x > _width[Current] => size[1] >= max_x]_vars

\* C33: with column_force_fit_text, the widget added at index i to a menu
\* whose column i // rows has a max width is limited to that max width
\* (less the selection margin and border).
C33_ForceFitOwnColumn ==
    [][(op'.name = "add" /\ err' = "none" /\ _force_fit_text[Current]) =>
          LET i == Len(_widgets[Current])
              col == i \div _rows[Current]
              limits == _column_max_width[Current]
          IN  (col < _columns[Current] /\ limits[col + 1] # NoWidth) =>
                  _widgets'[Current][i + 1].max_width =
                      limits[col + 1] - (_selection_highlight_margin_x
                                            + _selection_border_width)]_vars

\* C40: a menu built with an explicit rows argument never holds more than
\* columns * rows widgets, so that every widget's column (index // rows) is
\* a column of the menu.
C40_ColumnCapacity ==
    \A m \in Menus :
        _rows[m] # BigRows =>
            /\ Len(_widgets[m]) <= _columns[m] * _rows[m]
            /\ Overflowing(State, m, _columns[m]) = {}

\* C34: mainloop() called on a disabled tree returns at once and dispatches
\* nothing; called on an enabled tree it starts to loop. Every tick updates,
\* draws exactly when the tree is enabled after the update, and returns
\* exactly when update() signalled stop, the tree is disabled or
\* disable_loop is set; a tick whose current menu has mainloop_loop=False is
\* the last one.
C34_MainloopTicks ==
    [][/\ op'.name = "mainloop" =>
              /\ mainloop'.pc = (IF _enabled[Root] THEN "in" ELSE "out")
              /\ mainloop'.ticks = 0
              /\ offered' = <<>>
              /\ UNCHANGED <<_widgets, _index, _current, _prev, _enabled,
                             _closelocked, _joy_event, _widgets_surface>>
       /\ op'.name = "tick" =>
              /\ err' = "none"
              /\ mainloop'.ticks = mainloop.ticks + 1
              /\ mainloop'.drew = _enabled'[Root]
              /\ mainloop'.pc = "out" <=>
                     \/ data'.break_mainloop
                     \/ ~_enabled'[Root]
                     \/ mainloop.disable_loop
              /\ ~_mainloop_loop[Current] => mainloop'.pc = "out"]_vars

\* C34 witness: the second tick of a mainloop() without disable_loop, on a
\* looping menu, left the tree disabled: it drew nothing, update() signalled
\* stop and mainloop returned.
C34_Witness ==
    /\ op.name = "tick"
    /\ mainloop.pc = "out"
    /\ mainloop.ticks = 2
    /\ ~mainloop.disable_loop
    /\ ~_enabled[Root]
    /\ ~mainloop.drew
    /\ data.break_mainloop
    /\ _mainloop_loop[op.from]

\* A text of the form "#RRGGBB" or "RRGGBB".
IsHexColour(text) ==
    \/ Len(text) = 6 /\ \A k \in 1..6 : text[k] \in HexDigits
    \/ /\ Len(text) = 7
       /\ text[1] = "#"
       /\ \A k \in 2..7 : text[k] \in HexDigits

\* C35: set_value of the hex input accepts a text that is not blank only if
\* its valid characters read "#RRGGBB" or "RRGGBB"; a text it rejects raises
\* AssertionError and leaves the stored string as it was; the string it
\* stores is "#" or "#" and six hex digits, and get_value() of it does not
\* fail.
C35_SetValueHexForm ==
    [][op'.name = "set_value" =>
          LET text == strip(batch)
              valid == SelectSeq(text, IsValidChar)
          IN  IF err' = "none"
              THEN /\ text # <<>> => IsHexColour(valid)
                   /\ \/ _input_string' = <<"#">>
                      \/ Len(_input_string') = 7 /\ IsHexColour(_input_string')
                   /\ get_value_hex(_input_string').err = "none"
              ELSE /\ err' = "AssertionError"
                   /\ _input_string' = _input_string]_vars

\* The number of selectable widgets of a list.
Selectables(ws) == Cardinality({k \in 1..Len(ws) : ws[k].selectable})

\* C36: in a menu with at least two selectable widgets, a step up
\* (select(index - 1), by key or joystick hat) changes the selected widget.
C36_MoveUpProgress ==
    [][(/\ op'.name = "update"
        /\ batch'[1].type \in {"KEY_MOVE_DOWN", "JOY_UP"}
        /\ Selectables(_widgets[Current]) >= 2)
       => _index'[Current] # _index[Current]]_vars

\* C37: a mouse-down over the widget at index k selects it when it is
\* selectable, and leaves the selection as it was when it is not.
C37_MouseDownSelectsPointed ==
    [][(/\ op'.name = "update"
        /\ batch'[1].type = "MOUSEBUTTONDOWN"
        /\ batch'[1].at < Len(_widgets[Current]))
       => LET k == batch'[1].at
          IN  IF _widgets[Current][k + 1].selectable
              THEN _index'[Current] = k /\ _widgets'[Current][k + 1].selected
              ELSE _index' = _index /\ _widgets' = _widgets]_vars

\* C38: update() of a current menu without widgets raises nothing, returns
\* a boolean and leaves the selection state of the menu as it was.
C38_EmptyMenuUpdate ==
    [][(op'.name = "update" /\ _widgets[Current] = <<>>)
       => /\ err' = "none"
          /\ data'.break_mainloop \in BOOLEAN
          /\ _index' = _index
          /\ _widgets' = _widgets
          /\ _widget_selected' = _widget_selected]_vars

\* The 1-based places of the widgets of a menu whose selected flag is set.
Flagged(m) == {k \in 1..Len(_widgets[m]) : _widgets[m][k].selected}

\* C39: as long as clear() is not called, every menu has at most one widget
\* with the selected flag, and in a menu with a selectable widget that
\* widget is the one at the selected index.
C39_UniqueSelection ==
    \A m \in Menus :
        /\ Cardinality(Flagged(m)) <= 1
        /\ HasSelectable(_widgets[m]) => Flagged(m) = {_index[m] + 1}

\* C39 witness: the sub-menu A holds two buttons, the second one selected
\* and the only one flagged, after a reset brought the root back.
C39_Witness ==
    /\ op.name = "reset"
    /\ op.from = "A"
    /\ Current = Root
    /\ Selectables(_widgets["A"]) = 2
    /\ _index["A"] = 1
    /\ Flagged("A") = {2}
====
